---- MODULE Spec2Model ----
(***************************************************************************)
(* Model of the prompt enhancer backend: the /enhance-prompt endpoint      *)
(* (backend/main.py), PromptEnhancerService (backend/services.py) and the  *)
(* pydantic models (backend/models.py).                                    *)
(*                                                                         *)
(* Text is a sequence of chunks: a chunk is either one whitespace          *)
(* character (" " or "\n") or a run of non-whitespace characters.          *)
(* A JSON value is a record [t, s, n, l] (t the JSON type, s the text of a *)
(* string, n the number or the truth value 1/0, l the items of a list).    *)
(* An upstream reply is [pre, doc, post]: the characters before a JSON     *)
(* document, the document (parsed form), and the characters after it.      *)
(***************************************************************************)
EXTENDS Integers, Sequences, FiniteSets, TLC

VARIABLES
    pyd,            \* major version of pydantic behind the response models (0: not used yet)
    pc,             \* position of the request in the endpoint and the service
    request,        \* the request body
    system_prompt,  \* the text _create_system_prompt built
    upstream,       \* outcome of the call to the chat-completion API
    grok_response,  \* the text the upstream model replied with
    norm,           \* outcome of _parse_grok_response
    enhanced_data,  \* the mapping _parse_grok_response returned
    response,       \* the EnhancedPromptResponse enhance_prompt returned
    exc,            \* the exception enhance_prompt raised
    http,           \* status code of the endpoint's response
    calls,          \* number of calls made to the upstream API
    fence           \* the normalizer applied to a text and to the text fenced

vars == <<pyd, pc, request, system_prompt, upstream, grok_response, norm,
          enhanced_data, response, exc, http, calls, fence>>

\* ---------------------------------------------------------------- bounds
\* longest original_prompt, in characters
MaxPromptLen == 4
\* most fields of a reply that differ from the well-formed reply
MaxOdd == 1
\* most pieces of text before and after the document of a fenced reply
MaxLead == 2
MaxTrail == 1

\* ------------------------------------------------------- JSON values
S(s) == [t |-> "str", s |-> s, n |-> 0, l |-> <<>>]
N(n) == [t |-> "num", s |-> <<>>, n |-> n, l |-> <<>>]
B(b) == [t |-> "bool", s |-> <<>>, n |-> IF b THEN 1 ELSE 0, l |-> <<>>]
Null == [t |-> "null", s |-> <<>>, n |-> 0, l |-> <<>>]
L(items) == [t |-> "list", s |-> <<>>, n |-> 0, l |-> items]
\* the one nested mapping of the domain: {"k": "v"}
M == [t |-> "map", s |-> <<>>, n |-> 0, l |-> <<>>]
\* a key that the mapping does not hold
Absent == [t |-> "absent", s |-> <<>>, n |-> 0, l |-> <<>>]
\* list items are scalars
I(v) == [t |-> v.t, s |-> v.s, n |-> v.n]

StructFields == {"context", "objective", "requirements", "target_audience",
                 "output_format", "tone_and_style", "examples", "constraints"}
structure_fields == <<"context", "objective", "requirements", "target_audience",
                      "output_format", "tone_and_style">>
TopFields == {"enhanced_prompt", "improvement_summary", "estimated_improvement",
              "usage_tips"}
required_fields == <<"enhanced_prompt", "prompt_structure">>

NoFields == [f \in StructFields |-> Absent]
NoTop == [f \in TopFields |-> Absent]
\* the value under "prompt_structure": a mapping m of the eight fields, or any
\* other JSON value
PSMap(m) == [t |-> "map", s |-> <<>>, n |-> 0, l |-> <<>>, m |-> m]
PSOther(v) == [t |-> v.t, s |-> v.s, n |-> v.n, l |-> v.l, m |-> NoFields]
\* a JSON document: a mapping (top, ps) or any other JSON value
DocMap(top, ps) == [t |-> "map", s |-> <<>>, n |-> 0, l |-> <<>>, top |-> top, ps |-> ps]
DocOther(v) == [t |-> v.t, s |-> v.s, n |-> v.n, l |-> v.l, top |-> NoTop,
                ps |-> PSOther(Absent)]
NoDoc == DocOther([Absent EXCEPT !.t = "nodoc"])

\* ------------------------------------------------------------- strings
IsWs(c) == c \in {" ", "\n"}

RECURSIVE LStrip(_)
LStrip(s) == IF s # <<>> /\ IsWs(Head(s)) THEN LStrip(Tail(s)) ELSE s

RECURSIVE RStrip(_)
RStrip(s) == IF s # <<>> /\ IsWs(s[Len(s)]) THEN RStrip(SubSeq(s, 1, Len(s) - 1)) ELSE s

\* str.strip()
Strip(s) == RStrip(LStrip(s))

WordCountChunks(s) == Cardinality({i \in 1..Len(s) : ~IsWs(s[i])})

\* len(s.split()): a word starts at every non-whitespace chunk that follows
\* whitespace or nothing; adjacent non-whitespace chunks are one word
WordCount(s) ==
    Cardinality({i \in 1..Len(s) : ~IsWs(s[i]) /\ (i = 1 \/ IsWs(s[i - 1]))})

\* str(v) of a value that is not a list
Str(v) ==
    CASE v.t = "str" -> v.s
      [] v.t = "num" -> <<ToString(v.n)>>
      [] v.t = "bool" -> IF v.n = 1 THEN <<"True">> ELSE <<"False">>
      [] v.t = "null" -> <<"None">>
      [] v.t = "map" -> <<"{'k':", " ", "'v'}">>

\* ------------------------------------------------------- reply text
Text(pre, doc, post) == [pre |-> pre, doc |-> doc, post |-> post]
\* a text holding no JSON document keeps all its characters in pre
HasDoc(x) == x.doc.t # "nodoc"
TextTail(x) == IF HasDoc(x) THEN x.post ELSE x.pre

TStrip(x) ==
    IF HasDoc(x) THEN Text(LStrip(x.pre), x.doc, RStrip(x.post))
    ELSE Text(Strip(x.pre), x.doc, <<>>)

\* A JSON document starts with none of the characters of a fence marker and
\* ends with none, so a prefix (suffix) match never runs into the document.
StartsWith(x, p) == Len(x.pre) >= Len(p) /\ SubSeq(x.pre, 1, Len(p)) = p
EndsWith(x, p) ==
    LET u == TextTail(x)
    IN Len(u) >= Len(p) /\ SubSeq(u, Len(u) - Len(p) + 1, Len(u)) = p
DropLeft(x, k) == [x EXCEPT !.pre = SubSeq(@, k + 1, Len(@))]
DropRight(x, k) ==
    IF HasDoc(x) THEN [x EXCEPT !.post = SubSeq(@, 1, Len(@) - k)]
    ELSE [x EXCEPT !.pre = SubSeq(@, 1, Len(@) - k)]

\* the backtick character (U+0060), one chunk per character
Backtick == "BACKTICK"
FenceJson == <<Backtick, Backtick, Backtick, "j", "s", "o", "n">>
FenceBare == <<Backtick, Backtick, Backtick>>

FenceStripJsonOnly(x) ==
    LET t0 == TStrip(x)
        t1 == IF StartsWith(t0, FenceJson) THEN DropLeft(t0, Len(FenceJson)) ELSE t0
        t3 == IF EndsWith(t1, FenceBare) THEN DropRight(t1, Len(FenceBare)) ELSE t1
    IN TStrip(t3)

\* lines 198-208: strip, drop the three fence markers, strip again
FenceStrip(x) ==
    LET t0 == TStrip(x)
        t1 == IF StartsWith(t0, FenceJson) THEN DropLeft(t0, Len(FenceJson)) ELSE t0
        t2 == IF StartsWith(t1, FenceBare) THEN DropLeft(t1, Len(FenceBare)) ELSE t1
        t3 == IF EndsWith(t2, FenceBare) THEN DropRight(t2, Len(FenceBare)) ELSE t2
    IN TStrip(t3)

\* json.loads succeeds on one JSON document with nothing but whitespace around it
JsonParses(x) ==
    /\ HasDoc(x)
    /\ \A i \in 1..Len(x.pre) : IsWs(x.pre[i])
    /\ \A i \in 1..Len(x.post) : IsWs(x.post[i])

\* ------------------------------------------------------ the normalizer
Raise(kind) == [kind |-> kind, data |-> NoDoc]
Return(d) == [kind |-> "value", data |-> d]

\* Python's `field in v`: a key of a mapping, a substring of a string (a chunk of
\* it here), an item of a list
In(field, v, keys) ==
    CASE v.t = "map" -> field \in keys
      [] v.t = "str" -> \E i \in 1..Len(v.s) : v.s[i] = field
      [] v.t = "list" -> \E i \in 1..Len(v.l) : v.l[i] = I(S(<<field>>))

TopKeys(d) ==
    {f \in TopFields : d.top[f].t # "absent"}
        \cup (IF d.ps.t # "absent" THEN {"prompt_structure"} ELSE {})

SeqRange(q) == {q[i] : i \in 1..Len(q)}

Placeholder(field) == <<"Not", " ", "specified", " ", "-", " ", field>>

TextItems(q) == [i \in 1..Len(q) |-> I(S(q[i]))]
default_improvement_summary ==
    L(TextItems(<< <<"Prompt", " ", "structure", " ", "enhanced">>,
                   <<"Context", " ", "and", " ", "requirements", " ", "added">>,
                   <<"Output", " ", "format", " ", "specified">> >>))
default_estimated_improvement == 75
default_usage_tips ==
    L(TextItems(<< <<"Use", " ", "this", " ", "enhanced", " ", "prompt", " ", "as-is">>,
                   <<"Adjust", " ", "requirements", " ", "based", " ", "on", " ",
                     "your", " ", "specific", " ", "needs">> >>))

SetDefaultKeep(v, default) == v
\* dict.setdefault(key, default)
SetDefault(v, default) == IF v.t = "absent" THEN default ELSE v

\* lines 221-223: a missing structure field gets its placeholder
FillMissingUnnamed(m) ==
    [f \in StructFields |->
        IF f \in SeqRange(structure_fields) /\ m[f].t = "absent"
        THEN S(<<"Not", " ", "specified">>) ELSE m[f]]
FillMissing(m) ==
    [f \in StructFields |->
        IF f \in SeqRange(structure_fields) /\ m[f].t = "absent"
        THEN S(Placeholder(f)) ELSE m[f]]

\* lines 231-232, 238-239: a value that is not a list becomes [str(value)]
EnsureListDrop(v) == IF v.t = "list" THEN v ELSE L(<<>>)
EnsureList(v) == IF v.t = "list" THEN v ELSE L(<<I(S(Str(v)))>>)

\* lines 235-239
OptionalList(v) == IF v.t = "absent" THEN L(<<>>) ELSE EnsureList(v)

\* lines 219-241 on a mapping whose "prompt_structure" is a mapping
FillDefaults(d) ==
    LET m1 == FillMissing(d.ps.m)
        m2 == [m1 EXCEPT !["requirements"] = EnsureList(@),
                         !["examples"] = OptionalList(@),
                         !["constraints"] = OptionalList(@)]
        top == [d.top EXCEPT
                  !["improvement_summary"] = SetDefault(@, default_improvement_summary),
                  !["estimated_improvement"] =
                      SetDefault(@, N(default_estimated_improvement)),
                  !["usage_tips"] = SetDefault(@, default_usage_tips)]
    IN DocMap(top, PSMap(m2))

\* services.py 193-249: _parse_grok_response
parse_grok_response(grok_response_text) ==
    LET x == FenceStrip(grok_response_text)
        d == x.doc
    IN IF ~JsonParses(x) THEN Raise("ValueError")           \* line 246
       ELSE IF d.t \in {"num", "bool", "null"}
       THEN Raise("TypeError")                                \* line 216: `in` on a scalar
       ELSE IF \E i \in 1..Len(required_fields) :
                  ~In(required_fields[i], d, TopKeys(d))
       THEN Raise("ValueError")                               \* line 217
       ELSE IF d.t # "map"
       THEN Raise("TypeError")                                \* line 222: str or list index
       ELSE IF d.ps.t # "map"
       THEN Raise("TypeError")                                \* lines 222, 223, 231
       ELSE Return(FillDefaults(d))

\* ------------------------------------------------- pydantic validation
\* The version of pydantic the service is installed with is not pinned by the
\* sources: ver is 1 or 2. A validated field is [ok, v].
PydanticVersions == {1, 2}
Valid(v) == [ok |-> TRUE, v |-> v]
Invalid(v) == [ok |-> FALSE, v |-> v]

\* a field declared str: version 1 turns a number into its text, version 2
\* accepts a string only
str_field(v, ver) ==
    CASE v.t = "str" -> Valid(v.s)
      [] v.t \in {"num", "bool"} -> IF ver = 1 THEN Valid(Str(v)) ELSE Invalid(<<>>)
      [] OTHER -> Invalid(<<>>)

\* a field declared List[str]
list_str_field(v, ver) ==
    IF v.t # "list" THEN Invalid(<<>>)
    ELSE IF \E i \in 1..Len(v.l) : ~str_field(v.l[i], ver).ok THEN Invalid(<<>>)
    ELSE Valid([i \in 1..Len(v.l) |-> str_field(v.l[i], ver).v])

estimated_improvement_ge == 1
estimated_improvement_le == 100

\* a field declared int: a number or a truth value
int_field(v) ==
    IF v.t \in {"num", "bool"} THEN Valid(v.n) ELSE Invalid(0)

\* models.py 116-121: estimated_improvement: int, ge=1, le=100
estimated_improvement_field_unranged(v) == int_field(v)
estimated_improvement_field(v) ==
    LET r == int_field(v)
    IN IF r.ok /\ (r.v < estimated_improvement_ge \/ r.v > estimated_improvement_le)
       THEN Invalid(0) ELSE r

\* models.py 50-91: PromptStructure(**m)
PromptStructure(m, ver) ==
    LET c == str_field(m["context"], ver)
        o == str_field(m["objective"], ver)
        r == list_str_field(m["requirements"], ver)
        a == str_field(m["target_audience"], ver)
        f == str_field(m["output_format"], ver)
        y == str_field(m["tone_and_style"], ver)
        e == list_str_field(m["examples"], ver)
        k == list_str_field(m["constraints"], ver)
    IN [ok |-> c.ok /\ o.ok /\ r.ok /\ a.ok /\ f.ok /\ y.ok /\ e.ok /\ k.ok,
        v |-> [context |-> c.v, objective |-> o.v, requirements |-> r.v,
               target_audience |-> a.v, output_format |-> f.v,
               tone_and_style |-> y.v, examples |-> e.v, constraints |-> k.v]]

NoStructure ==
    [context |-> <<>>, objective |-> <<>>, requirements |-> <<>>,
     target_audience |-> <<>>, output_format |-> <<>>, tone_and_style |-> <<>>,
     examples |-> <<>>, constraints |-> <<>>]

NoResponse ==
    [original_prompt |-> <<>>, enhanced_prompt |-> <<>>,
     prompt_structure |-> NoStructure, improvement_summary |-> <<>>,
     estimated_improvement |-> 0, enhancement_type |-> "",
     word_count_original |-> 0, word_count_enhanced |-> 0, usage_tips |-> <<>>]

\* models.py 93-146: EnhancedPromptResponse(**kw), created_at left out
EnhancedPromptResponse(kw, ver) ==
    LET e == str_field(kw.enhanced_prompt, ver)
        i == list_str_field(kw.improvement_summary, ver)
        n == estimated_improvement_field(kw.estimated_improvement)
        u == list_str_field(kw.usage_tips, ver)
        ps == kw.prompt_structure
    IN [ok |-> ps.ok /\ e.ok /\ i.ok /\ n.ok /\ u.ok,
        v |-> [original_prompt |-> kw.original_prompt, enhanced_prompt |-> e.v,
               prompt_structure |-> ps.v, improvement_summary |-> i.v,
               estimated_improvement |-> n.v,
               enhancement_type |-> kw.enhancement_type,
               word_count_original |-> kw.word_count_original,
               word_count_enhanced |-> kw.word_count_enhanced, usage_tips |-> u.v]]

\* dict.get(key, default)
Get(v, default) == IF v.t = "absent" THEN default ELSE v

\* services.py 80-97: the metrics and the response object; the outcome is the
\* response or the exception raised
build_response(req, data, ver) ==
    LET ep == data.top["enhanced_prompt"]
    IN IF ep.t # "str" THEN [kind |-> "AttributeError", v |-> NoResponse]  \* line 82
       ELSE
         LET r == EnhancedPromptResponse(
                     [original_prompt |-> req.original_prompt,
                      enhanced_prompt |-> ep,
                      prompt_structure |-> PromptStructure(data.ps.m, ver),
                      improvement_summary |->
                          Get(data.top["improvement_summary"], L(<<>>)),
                      estimated_improvement |->
                          Get(data.top["estimated_improvement"],
                              N(default_estimated_improvement)),
                      enhancement_type |-> req.enhancement_type,
                      word_count_original |-> WordCount(req.original_prompt),
                      word_count_enhanced |-> WordCount(ep.s),
                      usage_tips |-> Get(data.top["usage_tips"], L(<<>>))], ver)
         IN IF r.ok THEN [kind |-> "value", v |-> r.v]
            ELSE [kind |-> "ValidationError", v |-> NoResponse]

\* ------------------------------------------------------------ requests
valid_types == {"general", "creative", "technical", "business", "educational"}
valid_audiences == {"general", "beginner", "intermediate", "expert", "student",
                    "business"}
min_length == 3
max_length == 5000

\* models.py 11-48: PromptRequest
PromptRequestValid(req) ==
    /\ Len(req.original_prompt) >= min_length
    /\ Len(req.original_prompt) <= max_length
    /\ req.enhancement_type \in valid_types
    /\ req.target_audience \in valid_audiences

\* services.py 103-144: the base block and one fragment per axis, "general" for
\* a key the dictionary does not hold
type_specific == {"creative", "technical", "business", "educational", "general"}
audience_specific == {"beginner", "expert", "business", "student", "general"}
create_system_prompt(enhancement_type, target_audience) ==
    << "base_prompt",
       IF enhancement_type \in type_specific THEN enhancement_type ELSE "general",
       IF target_audience \in audience_specific THEN target_audience ELSE "general" >>

PromptChars == {"a", " "}
Prompts == UNION {[1..k -> PromptChars] : k \in 0..MaxPromptLen}
RequestTypes == {"creative", "poetic"}
RequestAudiences == {"beginner", "everyone"}
Requests ==
    {[original_prompt |-> p, enhancement_type |-> e, target_audience |-> a] :
        p \in Prompts, e \in RequestTypes, a \in RequestAudiences}
NoRequest == [original_prompt |-> <<>>, enhancement_type |-> "", target_audience |-> ""]

\* ------------------------------------------------------------- replies
\* the reply the system prompt asks for
Baseline ==
    DocMap([enhanced_prompt |-> S(<<"Write", " ", "a", " ", "post">>),
            improvement_summary |-> L(<<I(S(<<"clearer">>))>>),
            estimated_improvement |-> N(85),
            usage_tips |-> L(<<I(S(<<"reuse">>))>>)],
           PSMap([context |-> S(<<"c">>), objective |-> S(<<"o">>),
                  requirements |-> L(<<I(S(<<"r1">>)), I(S(<<"r2">>))>>),
                  target_audience |-> S(<<"t">>), output_format |-> S(<<"f">>),
                  tone_and_style |-> S(<<"s">>),
                  examples |-> L(<<I(S(<<"e">>))>>),
                  constraints |-> L(<<I(S(<<"k">>))>>)]))
\* the reply that holds the two required fields and nothing else
Sparse == DocMap([NoTop EXCEPT !["enhanced_prompt"] = S(<<"X">>)], PSMap(NoFields))

Slots == TopFields \cup StructFields \cup {"prompt_structure"}

\* the values a field of a reply may take in place of the expected one
OddValues(slot) ==
    CASE slot = "enhanced_prompt" ->
            {Absent, S(<<>>), S(<<" ", "a", " ", " ", "b">>), N(5), Null}
      [] slot = "prompt_structure" -> {Absent, S(<<"r">>), N(5), Null, L(<<>>)}
      [] slot \in {"improvement_summary", "usage_tips"} ->
            {Absent, S(<<"r">>), L(<<>>), L(<<I(N(5))>>)}
      [] slot = "estimated_improvement" ->
            {Absent, N(0), N(1), N(75), N(100), N(101), B(TRUE), S(<<"r">>), Null}
      [] slot = "requirements" ->
            {Absent, S(<<"r">>), N(5), B(TRUE), Null, L(<<>>), L(<<I(N(5))>>), M}
      [] slot \in {"examples", "constraints"} -> {Absent, S(<<"r">>), Null, L(<<>>)}
      [] OTHER -> {Absent, S(<<>>), N(5), Null}

SetSlot(d, slot, v) ==
    IF slot = "prompt_structure" THEN [d EXCEPT !.ps = PSOther(v)]
    ELSE IF slot \in TopFields THEN [d EXCEPT !.top[slot] = v]
    ELSE IF d.ps.t = "map" THEN [d EXCEPT !.ps.m[slot] = v]
    ELSE d

\* the replies that differ from those of base in at most k fields
RECURSIVE Deviations(_, _)
Deviations(base, k) ==
    IF k = 0 THEN base
    ELSE LET prev == Deviations(base, k - 1)
         IN prev \cup UNION {{SetSlot(d, slot, v) : d \in prev, v \in OddValues(slot)} :
                                slot \in Slots}

\* JSON documents that are no mapping
OtherDocs ==
    {DocOther(v) : v \in {N(5), B(TRUE), Null, S(<<"x">>), L(<<>>),
                          S(<<"enhanced_prompt", " ", "prompt_structure">>),
                          L(<<I(S(<<"enhanced_prompt">>)),
                              I(S(<<"prompt_structure">>))>>)}}

Docs == Deviations({Baseline}, MaxOdd) \cup {Sparse} \cup OtherDocs

\* how the upstream model lays its reply out
Wrap(form, x) ==
    LET open == CASE form = "plain" -> <<>>
                  [] form = "json" -> FenceJson \o <<"\n">>
                  [] form = "bare" -> FenceBare \o <<"\n">>
                  [] form = "JSON" -> FenceBare \o <<"J", "S", "O", "N", "\n">>
                  [] form = "json_padded" -> <<" ">> \o FenceJson \o <<"\n">>
        close == CASE form = "plain" -> <<>>
                   [] form = "json_padded" -> <<"\n">> \o FenceBare \o <<"\n">>
                   [] OTHER -> <<"\n">> \o FenceBare
    IN IF HasDoc(x) THEN Text(open \o x.pre, x.doc, x.post \o close)
       ELSE Text(open \o x.pre \o close, x.doc, <<>>)

ReplyForms == {"plain", "json"}
ReplyTexts ==
    {Wrap(form, Text(<<>>, d, <<>>)) : form \in ReplyForms, d \in Docs}
        \cup {Text(<<"not", " ", "json", " ", "at", " ", "all">>, NoDoc, <<>>)}
NoText == Text(<<>>, NoDoc, <<>>)

\* ------------------------------------------------------- the endpoint
NoFence == [content |-> NoText, form |-> "plain", plain |-> Raise("none"),
            fenced |-> Raise("none")]

Init ==
    /\ pyd = 0
    /\ pc = "idle"
    /\ request = NoRequest
    /\ system_prompt = <<>>
    /\ upstream = "none"
    /\ grok_response = NoText
    /\ norm = "none"
    /\ enhanced_data = NoDoc
    /\ response = NoResponse
    /\ exc = "none"
    /\ http = 0
    /\ calls = 0
    /\ fence = NoFence

\* FastAPI validates the body against PromptRequest before the endpoint runs
Receive ==
    /\ pc = "idle"
    /\ \E req \in Requests :
          /\ request' = req
          /\ IF PromptRequestValid(req)
             THEN pc' = "endpoint" /\ http' = http
             ELSE pc' = "responded" /\ http' = 422
    /\ UNCHANGED <<pyd, system_prompt, upstream, grok_response, norm, enhanced_data,
                   response, exc, calls, fence>>

\* main.py 59-74: the HTTPException(400) is raised inside the try block, is no
\* ValueError, and is caught by `except Exception`, which raises the 500
EndpointValidate ==
    /\ pc = "endpoint"
    /\ IF Len(request.original_prompt) = 0 \/ Len(Strip(request.original_prompt)) < 3
       THEN pc' = "responded" /\ http' = 500
       ELSE pc' = "BUILD_TEMPLATE" /\ http' = http
    /\ UNCHANGED <<pyd, request, system_prompt, upstream, grok_response, norm,
                   enhanced_data, response, exc, calls, fence>>

\* services.py 71-72
BuildTemplate ==
    /\ pc = "BUILD_TEMPLATE"
    /\ system_prompt' = create_system_prompt(request.enhancement_type,
                                             request.target_audience)
    /\ pc' = "CALL_UPSTREAM"
    /\ UNCHANGED <<pyd, request, upstream, grok_response, norm, enhanced_data,
                   response, exc, http, calls, fence>>

\* what one POST to the chat-completion API can end in
UpstreamFailures == {"non200", "timeout", "transport", "bad_body"}
\* services.py 155-191: the exception _call_grok_api raises
upstream_exception(outcome) ==
    CASE outcome = "non200" -> "Exception"              \* line 181
      [] outcome = "timeout" -> "Exception"             \* line 188
      [] outcome = "transport" -> "TransportError"      \* line 191, httpx error
      [] outcome = "bad_body" -> "KeyError"             \* line 184

\* services.py 75: the call fails and enhance_prompt re-raises (lines 99-101)
CallUpstreamFails ==
    /\ pc = "CALL_UPSTREAM"
    /\ calls' = calls + 1
    /\ \E outcome \in UpstreamFailures :
          /\ upstream' = outcome
          /\ exc' = upstream_exception(outcome)
    /\ pc' = "RAISED"
    /\ UNCHANGED <<pyd, request, system_prompt, grok_response, norm, enhanced_data,
                   response, http, fence>>

\* services.py 75: status 200, the content of the first choice is the reply
CallUpstreamReplies ==
    /\ pc = "CALL_UPSTREAM"
    /\ calls' = calls + 1
    /\ upstream' = "ok"
    /\ \E text \in ReplyTexts : grok_response' = text
    /\ pc' = "NORMALIZE"
    /\ UNCHANGED <<pyd, request, system_prompt, norm, enhanced_data, response, exc,
                   http, fence>>

\* services.py 78
Normalize ==
    /\ pc = "NORMALIZE"
    /\ LET out == parse_grok_response(grok_response)
       IN /\ norm' = out.kind
          /\ IF out.kind = "value"
             THEN /\ enhanced_data' = out.data
                  /\ pc' = "COMPUTE_METRICS"
                  /\ exc' = exc
             ELSE /\ enhanced_data' = enhanced_data
                  /\ pc' = "RAISED"
                  /\ exc' = out.kind
    /\ UNCHANGED <<pyd, request, system_prompt, upstream, grok_response, response,
                   http, calls, fence>>

\* services.py 80-97, with either version of pydantic behind the models
ComputeMetrics ==
    /\ pc = "COMPUTE_METRICS"
    /\ \E ver \in PydanticVersions :
          LET r == build_response(request, enhanced_data, ver)
          IN /\ pyd' = ver
             /\ IF r.kind = "value"
                THEN response' = r.v /\ pc' = "DONE" /\ exc' = exc
                ELSE response' = response /\ pc' = "RAISED" /\ exc' = r.kind
    /\ UNCHANGED <<request, system_prompt, upstream, grok_response, norm,
                   enhanced_data, http, calls, fence>>

\* main.py 76-77
ReturnResponse ==
    /\ pc = "DONE"
    /\ http' = 200
    /\ pc' = "responded"
    /\ UNCHANGED <<pyd, request, system_prompt, upstream, grok_response, norm,
                   enhanced_data, response, exc, calls, fence>>

\* pydantic's ValidationError is a ValueError
IsValueError(e) == e \in {"ValueError", "ValidationError"}

\* main.py 79-88
HandleException ==
    /\ pc = "RAISED"
    /\ http' = IF IsValueError(exc) THEN 400 ELSE 500
    /\ pc' = "responded"
    /\ UNCHANGED <<pyd, request, system_prompt, upstream, grok_response, norm,
                   enhanced_data, response, exc, calls, fence>>

Next ==
    \/ Receive
    \/ EndpointValidate
    \/ BuildTemplate
    \/ CallUpstreamFails
    \/ CallUpstreamReplies
    \/ Normalize
    \/ ComputeMetrics
    \/ ReturnResponse
    \/ HandleException

Spec == Init /\ [][Next]_vars

\* ------------------------------------- the normalizer on fenced text
\* pieces of text a reply may hold around its document
Pieces == {FenceBare, <<"j", "s", "o", "n">>, <<Backtick>>, <<" ">>, <<"x">>}

RECURSIVE Runs(_)
Runs(k) ==
    IF k = 0 THEN {<<>>}
    ELSE LET prev == Runs(k - 1) IN prev \cup {r \o q : r \in prev, q \in Pieces}

FenceDocs ==
    {NoDoc, Baseline, Sparse, DocOther(N(5)),
     SetSlot(Baseline, "prompt_structure", Absent)}

Contents ==
    {IF d.t = "nodoc" THEN Text(pre \o post, d, <<>>) ELSE Text(pre, d, post) :
        pre \in Runs(MaxLead), post \in Runs(MaxTrail), d \in FenceDocs}

FenceForms == {"json", "bare", "json_padded", "JSON"}

InitFence ==
    /\ pyd = 0
    /\ pc = "fence"
    /\ request = NoRequest
    /\ system_prompt = <<>>
    /\ upstream = "none"
    /\ grok_response = NoText
    /\ norm = "none"
    /\ enhanced_data = NoDoc
    /\ response = NoResponse
    /\ exc = "none"
    /\ http = 0
    /\ calls = 0
    /\ fence \in {[NoFence EXCEPT !.content = c, !.form = f] :
                     c \in Contents, f \in FenceForms}

\* _parse_grok_response on the content as it is and on the content fenced
NormalizeFenced ==
    /\ pc = "fence"
    /\ fence' = [fence EXCEPT !.plain = parse_grok_response(fence.content),
                              !.fenced = parse_grok_response(Wrap(fence.form, fence.content))]
    /\ pc' = "fence_done"
    /\ UNCHANGED <<pyd, request, system_prompt, upstream, grok_response, norm,
                   enhanced_data, response, exc, http, calls>>

NextFence == NormalizeFenced

SpecFence == InitFence /\ [][NextFence]_vars

BeginsOrEndsWithFence(x) ==
    LET y == TStrip(x) IN StartsWith(y, FenceBare) \/ EndsWith(y, FenceBare)

ReplyParses == JsonParses(FenceStrip(grok_response))
ReplyDoc == FenceStrip(grok_response).doc
HasBothRequired(d) ==
    d.t = "map" /\ d.top["enhanced_prompt"].t # "absent" /\ d.ps.t # "absent"
Texts(v) == [i \in 1..Len(v.l) |-> v.l[i].s]
IsTextList(v) == v.t = "list" /\ \A i \in 1..Len(v.l) : v.l[i].t = "str"

\* C1: when the upstream call fails, the request is never left with a raised
\* exception: it is answered with status 200 and a result whose
\* estimated_improvement is 70
C1_UpstreamFailureFallsBack ==
    upstream \in UpstreamFailures =>
        /\ pc # "RAISED"
        /\ pc = "responded" => (http = 200 /\ response.estimated_improvement = 70)

\* C2: when the normalizer fails with ParseError, enhance raises nothing and
\* the endpoint answers with a result, not with an error
C2_ParseErrorAbsorbed ==
    norm = "ValueError" =>
        /\ pc # "RAISED"
        /\ pc = "responded" => http = 200

\* C3: a reply that does not parse, or parses to something without a top-level
\* "enhanced_prompt" or "prompt_structure", makes the normalizer fail with
\* ParseError and return nothing
C3_ParseErrorOnBadShape ==
    (norm # "none" /\ (~ReplyParses \/ ~HasBothRequired(ReplyDoc)))
        => (norm = "ValueError" /\ enhanced_data = NoDoc)

\* what the response models declare of a normalized reply
SchemaConformant(d) ==
    /\ d.t = "map" /\ d.ps.t = "map"
    /\ d.top["enhanced_prompt"].t = "str"
    /\ \A f \in {"context", "objective", "target_audience", "output_format",
                 "tone_and_style"} : d.ps.m[f].t = "str"
    /\ \A f \in {"requirements", "examples", "constraints"} : IsTextList(d.ps.m[f])
    /\ IsTextList(d.top["improvement_summary"])
    /\ IsTextList(d.top["usage_tips"])
    /\ d.top["estimated_improvement"].t = "num"

\* C4: the normalizer ends in a schema-conformant value or in ParseError, and in
\* a value whenever the reply parses and holds both required fields
C4_NormalizerTotal ==
    norm # "none" =>
        /\ norm \in {"value", "ValueError"}
        /\ (ReplyParses /\ HasBothRequired(ReplyDoc)) => norm = "value"
        /\ norm = "value" => SchemaConformant(enhanced_data)

NonEmpty(v) == IF v.t = "list" THEN v.l # <<>> ELSE v.s # <<>>

\* C5 (as stated): after normalization each of the six required fields is
\* non-empty, holds its placeholder if the reply lacked it and the upstream
\* value otherwise; examples and constraints omitted by the reply are empty lists
C5_RequiredFieldsNonEmpty ==
    norm = "value" =>
        /\ \A i \in 1..Len(structure_fields) :
             LET f == structure_fields[i]
                 u == ReplyDoc.ps.m[f]
                 v == enhanced_data.ps.m[f]
             IN /\ v.t # "absent" /\ NonEmpty(v)
                /\ u.t = "absent" =>
                     v = (IF f = "requirements" THEN L(<<I(S(Placeholder(f)))>>)
                          ELSE S(Placeholder(f)))
                /\ u.t # "absent" => v = u
        /\ \A f \in {"examples", "constraints"} :
             ReplyDoc.ps.m[f].t = "absent" => enhanced_data.ps.m[f] = L(<<>>)

\* C5 (amended): after normalization each of the six required fields is present;
\* a field the reply lacked holds the placeholder "Not specified - <field>"
\* (requirements: the one-element list of it), a field the reply held keeps the
\* upstream value, empty or not (requirements: made a list as C6 says);
\* examples and constraints omitted by the reply are empty lists
C5_RequiredFieldsPresent ==
    norm = "value" =>
        /\ \A i \in 1..Len(structure_fields) :
             LET f == structure_fields[i]
                 u == ReplyDoc.ps.m[f]
                 v == enhanced_data.ps.m[f]
             IN /\ v.t # "absent"
                /\ u.t = "absent" =>
                     /\ NonEmpty(v)
                     /\ v = (IF f = "requirements"
                             THEN L(<<[t |-> "str", n |-> 0,
                                       s |-> <<"Not", " ", "specified", " ", "-", " ", f>>]>>)
                             ELSE S(<<"Not", " ", "specified", " ", "-", " ", f>>))
                /\ (u.t # "absent" /\ (f # "requirements" \/ u.t = "list")) => v = u
        /\ \A f \in {"examples", "constraints"} :
             ReplyDoc.ps.m[f].t = "absent" => enhanced_data.ps.m[f] = L(<<>>)

\* the reply that holds no field of the structure was normalized
C5_Witness ==
    /\ norm = "value"
    /\ ReplyDoc = Sparse
    /\ enhanced_data.ps.m["context"].s = <<"Not", " ", "specified", " ", "-", " ", "context">>
    /\ Len(enhanced_data.ps.m["requirements"].l) = 1
    /\ enhanced_data.ps.m["examples"] = L(<<>>)

\* C6: after normalization requirements, examples and constraints are lists: a
\* list of the reply is unchanged, any other value v of the reply becomes the
\* one-element list of str(v), absent examples and constraints become []
C6_ListsCoerced ==
    norm = "value" =>
        \A f \in {"requirements", "examples", "constraints"} :
            LET u == ReplyDoc.ps.m[f]
                v == enhanced_data.ps.m[f]
            IN /\ v.t = "list"
               /\ u.t = "list" => v = u
               /\ u.t \notin {"list", "absent"} =>
                    (Len(v.l) = 1 /\ v.l[1] = [t |-> "str", s |-> Str(u), n |-> 0])
               /\ (u.t = "absent" /\ f # "requirements") => v.l = <<>>

C6_Witness ==
    /\ norm = "value"
    /\ ReplyDoc.ps.m["requirements"] = N(5)
    /\ enhanced_data.ps.m["requirements"].l = <<[t |-> "str", s |-> <<"5">>, n |-> 0]>>
    /\ ReplyDoc.ps.m["examples"].t = "list"

\* C7 (as stated): the returned result holds the generic summary, 75 and the
\* generic tips exactly when the reply omitted the field, and a value of the
\* reply unchanged otherwise
C7_DefaultsIffOmitted ==
    pc = "DONE" =>
        /\ response.improvement_summary = Texts(default_improvement_summary)
             <=> ReplyDoc.top["improvement_summary"].t = "absent"
        /\ response.estimated_improvement = 75
             <=> ReplyDoc.top["estimated_improvement"].t = "absent"
        /\ response.usage_tips = Texts(default_usage_tips)
             <=> ReplyDoc.top["usage_tips"].t = "absent"

\* C7 (amended): the returned result holds the three-item generic summary, 75
\* and the two-item generic tips whenever the reply omitted the field (a reply
\* may also carry such a value itself), and a list of texts or a number of the
\* reply is carried through unchanged
C7_DefaultsWhenOmitted ==
    pc = "DONE" =>
        /\ \A f \in {"improvement_summary", "usage_tips"} :
             LET u == ReplyDoc.top[f]
                 v == IF f = "usage_tips" THEN response.usage_tips
                      ELSE response.improvement_summary
             IN /\ u.t = "absent" =>
                     (/\ Len(v) = (IF f = "usage_tips" THEN 2 ELSE 3)
                      /\ v = Texts(IF f = "usage_tips" THEN default_usage_tips
                                   ELSE default_improvement_summary))
                /\ IsTextList(u) => v = Texts(u)
        /\ LET u == ReplyDoc.top["estimated_improvement"]
           IN /\ u.t = "absent" => response.estimated_improvement = 75
              /\ u.t = "num" => response.estimated_improvement = u.n

\* the sparse reply was answered with the defaults
C7_Witness ==
    /\ pc = "DONE"
    /\ ReplyDoc = Sparse
    /\ response.estimated_improvement = 75
    /\ Len(response.improvement_summary) = 3
    /\ Len(response.usage_tips) = 2

\* C8: a returned result has estimated_improvement in 1..100 and all eight
\* fields of the prompt structure
C8_ResultInRange ==
    pc = "DONE" =>
        /\ response.estimated_improvement \in 1..100
        /\ DOMAIN response.prompt_structure = StructFields
        /\ \A i \in 1..Len(structure_fields) :
             enhanced_data.ps.m[structure_fields[i]].t # "absent"

\* a reply that carries the largest allowed value was returned, and one that
\* carries more was not
C8_Witness ==
    /\ pc = "DONE"
    /\ ReplyDoc.top["estimated_improvement"] = N(100)
    /\ response.estimated_improvement = 100

\* the words of a text, counted at their last chunk
Tokens(s) ==
    Cardinality({i \in 1..Len(s) :
                    s[i] \notin {" ", "\n"} /\ (i = Len(s) \/ s[i + 1] \in {" ", "\n"})})

\* C9: in a returned result word_count_enhanced is the number of
\* whitespace-separated tokens of its enhanced_prompt and word_count_original
\* that of the request's original_prompt
C9_WordCounts ==
    pc = "DONE" =>
        /\ response.word_count_enhanced = Tokens(response.enhanced_prompt)
        /\ response.word_count_original = Tokens(request.original_prompt)
        /\ response.word_count_enhanced >= 0 /\ response.word_count_original >= 0
        /\ response.original_prompt = request.original_prompt

\* a result for a prompt and an enhanced prompt with runs of whitespace
C9_Witness ==
    /\ pc = "DONE"
    /\ request.original_prompt = <<"a", " ", " ", "a">>
    /\ response.enhanced_prompt = <<" ", "a", " ", " ", "b">>
    /\ response.word_count_original = 2
    /\ response.word_count_enhanced = 2

TemplateTypes == valid_types \cup {"poetic", ""}
TemplateAudiences == valid_audiences \cup {"everyone", ""}

InitTemplate ==
    /\ pyd = 0
    /\ pc = "template"
    /\ request \in {[NoRequest EXCEPT !.enhancement_type = e, !.target_audience = a] :
                       e \in TemplateTypes, a \in TemplateAudiences}
    /\ system_prompt = <<>>
    /\ upstream = "none"
    /\ grok_response = NoText
    /\ norm = "none"
    /\ enhanced_data = NoDoc
    /\ response = NoResponse
    /\ exc = "none"
    /\ http = 0
    /\ calls = 0
    /\ fence = NoFence

\* services.py 103-144: _create_system_prompt applied to the two values
CreateSystemPrompt ==
    /\ pc = "template"
    /\ system_prompt' = create_system_prompt(request.enhancement_type,
                                             request.target_audience)
    /\ pc' = "template_done"
    /\ UNCHANGED <<pyd, request, upstream, grok_response, norm, enhanced_data,
                   response, exc, http, calls, fence>>

NextTemplate == CreateSystemPrompt

SpecTemplate == InitTemplate /\ [][NextTemplate]_vars

\* ------------------------------------------------- claims C11 and C12
\* a request the claim calls malformed
Malformed(req) ==
    \/ req.enhancement_type \notin valid_types
    \/ req.target_audience \notin valid_audiences
    \/ Len(Strip(req.original_prompt)) < 3

\* C11: every malformed request (enhancement_type or target_audience outside
\* its enumeration, or original_prompt shorter than 3 characters after
\* trimming) is answered with a 4xx status, and no upstream call is made for it
C11_MalformedRejected4xx ==
    (pc \notin {"idle", "fence", "fence_done", "template", "template_done"}
        /\ Malformed(request)) =>
        /\ calls = 0
        /\ pc = "responded" => http \in 400..499

\* C12: the template is the base block, then the fragment of the
\* enhancement_type, then the fragment of the target_audience; every member of
\* an enumeration selects its own fragment, and "general" stands in on an axis
\* only for a value outside that axis's enumeration
C12_TemplateOwnFragments ==
    pc = "template_done" =>
        /\ Len(system_prompt) = 3
        /\ system_prompt[1] = "base_prompt"
        /\ system_prompt[2] = IF request.enhancement_type \in valid_types
                              THEN request.enhancement_type ELSE "general"
        /\ system_prompt[3] = IF request.target_audience \in valid_audiences
                              THEN request.target_audience ELSE "general"

====
